---- MODULE Spec2Model ----
(***************************************************************************)
(* Model of the Toggl Plan API client (src/togglplanapi.go).               *)
(*                                                                         *)
(* One client (togglPlanApi) is used from a single thread.  The server    *)
(* and the network are the environment: every HTTP attempt is answered    *)
(* by an outcome chosen from Outcomes.  doRequest runs its request        *)
(* through retryablehttp.Client.Do with the CheckRetry policy and the     *)
(* RetryMax that doRequest installs; Do's loop is                         *)
(*     for i := 0; ; i++ { send; if !CheckRetry break;                    *)
(*                         if RetryMax - i <= 0 break; wait }             *)
(* and, when it leaves the loop still wanting a retry (or with an error), *)
(* it drops the response and returns an error.                            *)
(***************************************************************************)
EXTENDS Integers, Sequences, FiniteSets, TLC

\* ------------------------------------------------------------------ bounds

\* Number of Request calls made on the client in one behaviour.
MaxCalls == 2

\* Number of threads that use one client at once.
MaxThreads == 2

\* ------------------------------------------------------- program constants

\* client.RetryMax = 5: the number of RETRIES Do may make after the first try.
RetryMaxOneMore == 5 + 1

RetryMax == 5

\* client.RetryWaitMin = 1 * time.Second, client.RetryWaitMax = 30 *
\* time.Second, in seconds.
RetryWaitMin == 1

RetryWaitMax == 30

StatusTooManyRequests == 429
StatusUnauthorized == 401
StatusNotImplemented == 501

\* The nil error.
Nil == "<nil>"

\* ------------------------------------------------------------ environment

\* Tokens the caller may pass to New ("" forces a fetch on first use).
NewTokens == {"", "t0"}

\* Response bodies the server may send with a 2xx status.
Bodies ==
    { "<html>", "{}", "{\"access_token\":7}", "{\"access_token\":\"\"}",
      "{\"access_token\":\"t1\"}", "{\"access_token\":\"t2\"}" }

\* One HTTP attempt ends in a transport error or in a response; the body of a
\* response is only ever read when the status is 2xx, and reading it may fail.
\* retryAfter is the response's Retry-After header ("" when it has none).
NetErr ==
    [kind |-> "neterr", status |-> 0, body |-> "", readOk |-> FALSE,
     retryAfter |-> ""]

Resp(s, b, ok) ==
    [kind |-> "resp", status |-> s, body |-> b, readOk |-> ok,
     retryAfter |-> ""]

RespAfter(s, after) ==
    [kind |-> "resp", status |-> s, body |-> "", readOk |-> TRUE,
     retryAfter |-> after]

Outcomes ==
    {NetErr}
    \cup {Resp(s, "", TRUE) : s \in {304, 401, 404, 429, 500, 501}}
    \cup {Resp(200, b, TRUE) : b \in Bodies}
    \cup {Resp(204, "", TRUE), Resp(200, "{}", FALSE)}

\* Header maps the caller may pass to Request.
NoHeaders == [k \in {} |-> ""]

CallerHeaders ==
    { NoHeaders,
      [k \in {"Content-Type"} |-> "text/plain"],
      [k \in {"authorization"} |-> "Bearer evil"] }

\* The arguments of a Request call: the headers, and whether the method and
\* the URL are well formed (retryablehttp.NewRequest refuses them otherwise).
CallArgs ==
    {[headers |-> h, wellFormed |-> TRUE, body |-> ""] : h \in CallerHeaders}
    \cup {[headers |-> NoHeaders, wellFormed |-> FALSE, body |-> ""]}

\* --------------------------------------------------------- pure functions

\* fmt.Sprint(resp.StatusCode): the decimal digits of the status code.
Sprint(n) == ToString(n)

\* http.StatusText for the statuses the environment sends.
StatusText(s) ==
    CASE s = 200 -> "OK"
      [] s = 204 -> "No Content"
      [] s = 304 -> "Not Modified"
      [] s = 401 -> "Unauthorized"
      [] s = 404 -> "Not Found"
      [] s = 429 -> "Too Many Requests"
      [] s = 500 -> "Internal Server Error"
      [] s = 501 -> "Not Implemented"
      [] OTHER -> ""

\* The transport error of a failed attempt.
NetError == "connection refused"

\* client.CheckRetry as doRequest installs it: (retry?, error).
CheckRetryNo501Exception(o) ==
    IF o.kind = "neterr" THEN [retry |-> TRUE, err |-> NetError]
    ELSE IF o.status = StatusTooManyRequests THEN [retry |-> TRUE, err |-> Nil]
    ELSE IF o.status = StatusUnauthorized THEN [retry |-> FALSE, err |-> Nil]
    ELSE IF o.status >= 500 THEN [retry |-> TRUE, err |-> Nil]
    ELSE [retry |-> FALSE, err |-> Nil]

CheckRetryAlso401(o) ==
    IF o.kind = "neterr" THEN [retry |-> TRUE, err |-> NetError]
    ELSE IF o.status = StatusTooManyRequests THEN [retry |-> TRUE, err |-> Nil]
    ELSE IF o.status = StatusUnauthorized THEN [retry |-> TRUE, err |-> Nil]
    ELSE IF o.status >= 500 /\ o.status # StatusNotImplemented
         THEN [retry |-> TRUE, err |-> Nil]
    ELSE [retry |-> FALSE, err |-> Nil]

CheckRetry(o) ==
    IF o.kind = "neterr" THEN [retry |-> TRUE, err |-> NetError]
    ELSE IF o.status = StatusTooManyRequests THEN [retry |-> TRUE, err |-> Nil]
    ELSE IF o.status = StatusUnauthorized THEN [retry |-> FALSE, err |-> Nil]
    ELSE IF o.status >= 500 /\ o.status # StatusNotImplemented
         THEN [retry |-> TRUE, err |-> Nil]
    ELSE [retry |-> FALSE, err |-> Nil]

\* strconv.ParseInt of a Retry-After header, for the headers of the model.
ParseRetryAfter(v) ==
    CASE v = "0" -> [ok |-> TRUE, seconds |-> 0]
      [] v = "120" -> [ok |-> TRUE, seconds |-> 120]
      [] OTHER -> [ok |-> FALSE, seconds |-> 0]

\* client.Backoff, which doRequest leaves at retryablehttp.DefaultBackoff: the
\* seconds client.Do waits after outcome o of attempt number n (from 0) before
\* it sends again.  A 429 or 503 with a Retry-After number waits that number;
\* otherwise the wait is min * 2^n, cut at max.
BackoffCountsFromOne(min, max, n, o) ==
    IF /\ o.kind = "resp"
       /\ o.status \in {429, 503}
       /\ ParseRetryAfter(o.retryAfter).ok
    THEN ParseRetryAfter(o.retryAfter).seconds
    ELSE IF min * 2^(n + 1) > max THEN max ELSE min * 2^(n + 1)

Backoff(min, max, n, o) ==
    IF /\ o.kind = "resp"
       /\ o.status \in {429, 503}
       /\ ParseRetryAfter(o.retryAfter).ok
    THEN ParseRetryAfter(o.retryAfter).seconds
    ELSE IF min * 2^n > max THEN max ELSE min * 2^n

\* The error client.Do returns when it gives up after n attempts.
GiveUpError(n, cause) ==
    "giving up after " \o ToString(n) \o " attempt(s)"
        \o (IF cause = Nil THEN "" ELSE ": " \o cause)

\* client.Do's return once its loop has ended on outcome o, the n-th attempt:
\* the response when the attempt succeeded and CheckRetry asked for no retry,
\* otherwise no response and the give-up error.
DoReturn(o, n) ==
    LET cr == CheckRetry(o)
    IN  IF o.kind = "resp" /\ cr.err = Nil /\ ~cr.retry
        THEN [resp |-> o, err |-> Nil]
        ELSE [resp |-> NetErr, err |-> GiveUpError(n, cr.err)]

\* doRequest from client.Do's return to its own return: (result, error).
DoRequestResultOnly200(d) ==
    IF d.err # Nil THEN [res |-> "Error running request", err |-> d.err]
    ELSE IF d.resp.status = 401 THEN [res |-> "Unauthorized", err |-> "401"]
    ELSE IF d.resp.status # 200
         THEN [res |-> Sprint(d.resp.status), err |-> StatusText(d.resp.status)]
    ELSE IF ~d.resp.readOk
         THEN [res |-> "Error reading response", err |-> "unexpected EOF"]
    ELSE [res |-> d.resp.body, err |-> Nil]

DoRequestResultTextFirst(d) ==
    IF d.err # Nil THEN [res |-> "Error running request", err |-> d.err]
    ELSE IF d.resp.status = 401 THEN [res |-> "Unauthorized", err |-> "401"]
    ELSE IF d.resp.status < 200 \/ d.resp.status >= 300
         THEN [res |-> StatusText(d.resp.status), err |-> Sprint(d.resp.status)]
    ELSE IF ~d.resp.readOk
         THEN [res |-> "Error reading response", err |-> "unexpected EOF"]
    ELSE [res |-> d.resp.body, err |-> Nil]

DoRequestResult(d) ==
    IF d.err # Nil THEN [res |-> "Error running request", err |-> d.err]
    ELSE IF d.resp.status = 401 THEN [res |-> "Unauthorized", err |-> "401"]
    ELSE IF d.resp.status < 200 \/ d.resp.status >= 300
         THEN [res |-> Sprint(d.resp.status), err |-> StatusText(d.resp.status)]
    ELSE IF ~d.resp.readOk
         THEN [res |-> "Error reading response", err |-> "unexpected EOF"]
    ELSE [res |-> d.resp.body, err |-> Nil]

\* json.Unmarshal of a body into TokenResponse{AccessToken string
\* `json:"access_token"`}: (error, AccessToken).  A JSON null, an object
\* without the field and a null field leave the zero value "".
Unmarshal(b) ==
    CASE b = "" -> [err |-> "unexpected end of JSON input", AccessToken |-> ""]
      [] b = "<html>" ->
            [err |-> "invalid character '<' looking for beginning of value",
             AccessToken |-> ""]
      [] b = "[]" ->
            [err |-> "json: cannot unmarshal array into Go value",
             AccessToken |-> ""]
      [] b = "{\"access_token\":7}" ->
            [err |-> "json: cannot unmarshal number into Go struct field",
             AccessToken |-> ""]
      [] b = "{\"access_token\":\"t1\"}" -> [err |-> Nil, AccessToken |-> "t1"]
      [] b = "{\"access_token\":\"t2\"}" -> [err |-> Nil, AccessToken |-> "t2"]
      [] OTHER -> [err |-> Nil, AccessToken |-> ""]

\* getToken from doRequest's return to its own return: (result, error).
GetTokenResultNoEmptyCheck(r) ==
    IF r.err = Nil
    THEN LET t == Unmarshal(r.res)
         IN  IF t.err # Nil
             THEN [res |-> "Couldn't parse authentication attempt response",
                   err |-> t.err]
             ELSE [res |-> t.AccessToken, err |-> Nil]
    ELSE [res |-> "Couldn't request for a new bearer token", err |-> r.err]

GetTokenResult(r) ==
    IF r.err = Nil
    THEN LET t == Unmarshal(r.res)
         IN  IF t.err # Nil
             THEN [res |-> "Couldn't parse authentication attempt response",
                   err |-> t.err]
             ELSE IF t.AccessToken = ""
             THEN [res |-> "", err |-> "access_token not found in response"]
             ELSE [res |-> t.AccessToken, err |-> Nil]
    ELSE [res |-> "Couldn't request for a new bearer token", err |-> r.err]

\* ----------------------------------------------------------------- headers

\* textproto.CanonicalMIMEHeaderKey, which http.Header.Set applies to a key.
Canon(k) ==
    CASE k = "authorization" -> "Authorization"
      [] k = "content-type" -> "Content-Type"
      [] OTHER -> k

\* mergeMaps: a new map with map1's pairs overwritten by map2's.
mergeMaps(map1, map2) ==
    [k \in DOMAIN map1 \cup DOMAIN map2 |->
        IF k \in DOMAIN map2 THEN map2[k] ELSE map1[k]]

\* What mergeMaps leaves in its two arguments: it only reads them.
mergeMapsArgsFilled(map1, map2) ==
    [map1 |-> map1, map2 |-> mergeMaps(map1, map2)]

mergeMapsArgs(map1, map2) == [map1 |-> map1, map2 |-> map2]

\* The loop "for k, v := range headers { req.Header.Set(k, v) }": the header
\* sets it can produce.  Go ranges over a map in no fixed order, so of two
\* keys with one canonical form either value may be the one that stays.
HeaderSets(headers) ==
    LET keys == {Canon(k) : k \in DOMAIN headers}
        vals == {headers[k] : k \in DOMAIN headers}
    IN  {h \in [keys -> vals] :
            \A c \in keys :
                \E k \in DOMAIN headers : Canon(k) = c /\ h[c] = headers[k]}

\* req.Header.Set("Authorization", auth.Type+" "+auth.Credential)
AuthorizationValue(auth) == auth.Type \o " " \o auth.Credential

SetAuthorizationIfAbsent(h, auth) ==
    [k \in DOMAIN h \cup {"Authorization"} |->
        IF k \in DOMAIN h THEN h[k] ELSE AuthorizationValue(auth)]

SetAuthorization(h, auth) ==
    [k \in DOMAIN h \cup {"Authorization"} |->
        IF k = "Authorization" THEN AuthorizationValue(auth) ELSE h[k]]

\* base64.StdEncoding.EncodeToString of the client credentials of the model.
Base64(s) ==
    CASE s = "cid:secret" -> "Y2lkOnNlY3JldA=="
      [] OTHER -> "?"

\* Request's defaultHeaders and getToken's headers.
DefaultHeaders == [k \in {"Content-Type"} |-> "application/json"]

TokenHeaders == [k \in {"Content-Type"} |-> "application/x-www-form-urlencoded"]

TokenURL == "https://api.plan.toggl.com/api/v5/authenticate/token"

TargetURL == "https://api.plan.toggl.com/api/v5/me"

\* The authDetails Request and getToken build.
BearerAuth(p) == [Type |-> "Bearer", Credential |-> p.bearerToken]

BasicAuth(p) ==
    [Type |-> "Basic", Credential |-> Base64(p.clientId \o ":" \o p.clientSecret)]

\* New(username, password, clientId, clientSecret, bearerToken)
New(username, password, clientId, clientSecret, bearerToken) ==
    [username |-> username, password |-> password, clientId |-> clientId,
     clientSecret |-> clientSecret, bearerToken |-> bearerToken]

\* ------------------------------------------------------------------- state

VARIABLES
    pa,      \* the client: username, password, clientId, clientSecret, bearerToken
    pc,      \* where the thread is: "idle", "fetch" (getToken's doRequest awaits
             \* an answer), "fetched" (that doRequest has returned to getToken),
             \* "target" (Request's doRequest awaits an answer)
    args,    \* the running Request call's arguments: headers, wellFormed
    req,     \* the request the running doRequest sends: dest, url, method,
             \* header, body
    i,       \* client.Do's loop counter: the retries made so far
    hist,    \* the outcomes of the attempts of the current doRequest call
    dret,    \* what the last doRequest call returned
    gret,    \* what the last getToken call returned
    ret,     \* what the last Request call returned
    got,     \* what the last GetToken call returned
    sent,    \* the requests the current Request call has handed to client.Do
    tok0,    \* pa.bearerToken when the current Request call started
    nFetch,  \* getToken calls made by the current Request call
    nTarget, \* doRequest calls for the target made by the current Request call
    calls,   \* Request calls started so far
    prev,    \* summary of the Request call before the current one
    waits,   \* the seconds client.Do has waited before each retry of the
             \* current doRequest call
    caller,  \* what the caller's headers map and body slice hold
    th,      \* concurrent use: where each thread is in its Request call
    writes,  \* concurrent use: the assignments made to pa.bearerToken
    crashed  \* concurrent use: a torn read of pa.bearerToken has faulted

\* The state of the concurrent use of the client.
cvars == <<th, writes, crashed>>

vars ==
    <<pa, pc, args, req, i, hist, dret, gret, ret, got, sent, tok0, nFetch,
      nTarget, calls, prev, waits, caller, th, writes, crashed>>

NoReturn == [res |-> "-", err |-> "-"]

NoRequest ==
    [dest |-> "-", url |-> "-", method |-> "-", header |-> NoHeaders,
     body |-> "-"]

NoArgs == [headers |-> NoHeaders, wellFormed |-> TRUE, body |-> ""]

\* The threads that use the client at once.
Threads == 1..MaxThreads

\* A thread before its Request call: at is the last assignment to
\* pa.bearerToken the thread has made or seen (0: the value New stored), saw
\* what it read at the token test, fetched what its getToken returned, auth
\* the Authorization value of its target request, res what its call returned.
ThreadIdle ==
    [pc |-> "idle", at |-> 0, saw |-> "-", fetched |-> "-", auth |-> "-",
     res |-> "-"]

\* What a read of the two-word string returns when it overlaps a write.
Torn == "<torn>"

NotCalled == "-"

\* The Authorization header of the target request of the current call.
TargetAuth ==
    IF \E n \in 1..Len(sent) : sent[n].dest = "target"
    THEN LET n == CHOOSE n \in 1..Len(sent) : sent[n].dest = "target"
         IN  sent[n].header["Authorization"]
    ELSE "-"

Summary ==
    [tok0 |-> tok0, nFetch |-> nFetch, nTarget |-> nTarget,
     targetAuth |-> TargetAuth, tokEnd |-> pa.bearerToken]

NoSummary ==
    [tok0 |-> "-", nFetch |-> 0, nTarget |-> 0, targetAuth |-> "-",
     tokEnd |-> "-"]

Init ==
    /\ \E t \in NewTokens : pa = New("user", "pw", "cid", "secret", t)
    /\ pc = "idle"
    /\ args = NoArgs
    /\ req = NoRequest
    /\ i = 0
    /\ hist = <<>>
    /\ dret = NoReturn
    /\ gret = NoReturn
    /\ ret = NoReturn
    /\ got = NotCalled
    /\ sent = <<>>
    /\ tok0 = pa.bearerToken
    /\ nFetch = 0
    /\ nTarget = 0
    /\ calls = 0
    /\ prev = NoSummary
    /\ waits = <<>>
    /\ caller = [headers |-> NoHeaders, body |-> ""]
    /\ th = [t \in Threads |-> ThreadIdle]
    /\ writes = <<>>
    /\ crashed = FALSE

\* ----------------------------------------------------------------- actions

\* Request's test "pa.bearerToken == \"\"".
NeedTokenAlways(p) == TRUE

NeedTokenInverted(p) == p.bearerToken # ""

NeedToken(p) == p.bearerToken = ""

\* Request's test "err == nil" on what getToken returned.
FetchSucceededAlways(g) == TRUE

FetchSucceeded(g) == g.err = Nil

\* "pa.bearerToken = result" after a getToken that returned no error.
CacheTokenNot(p, g) == p

CacheTokenIfEmpty(p, g) ==
    IF p.bearerToken = "" THEN [p EXCEPT !.bearerToken = g.res] ELSE p

CacheToken(p, g) == [p EXCEPT !.bearerToken = g.res]

\* client.Do goes round its loop again after outcome o of attempt number i
\* (counted from 0): CheckRetry asks for it and RetryMax - i > 0.
RetryAgainOnceMore(o, n) == CheckRetry(o).retry /\ RetryMax + 1 - n > 0

RetryAgain(o, n) == CheckRetry(o).retry /\ RetryMax - n > 0

\* Request from "defaultHeaders := ..." to doRequest's client.Do(req), for the
\* client p and the arguments a, s being the requests the call has sent so far.
\* retryablehttp.NewRequest refuses a malformed method or URL, and doRequest
\* then returns without sending anything.
BeginTarget(p, a, s) ==
    LET finalHeaders == mergeMaps(DefaultHeaders, a.headers)
        auth == BearerAuth(p)
    IN  /\ caller' = [headers |-> mergeMapsArgs(DefaultHeaders, a.headers).map2,
                      body |-> a.body]
        /\ waits' = <<>>
        /\ IF a.wellFormed
           THEN \E h \in HeaderSets(finalHeaders) :
                   LET r == [dest |-> "target", url |-> TargetURL,
                             method |-> "GET",
                             header |-> SetAuthorization(h, auth),
                             body |-> a.body]
                   IN  /\ req' = r
                       /\ sent' = Append(s, r)
                       /\ pc' = "target"
                       /\ dret' = NoReturn
                       /\ ret' = NoReturn
           ELSE /\ req' = NoRequest
                /\ sent' = s
                /\ pc' = "idle"
                /\ dret' = [res |-> "Error building request",
                            err |-> "net/http: invalid method"]
                /\ ret' = dret'

\* getToken up to doRequest's client.Do(req).
BeginFetch(p) ==
    LET r == [dest |-> "token", url |-> TokenURL, method |-> "POST",
              header |-> SetAuthorization(TokenHeaders, BasicAuth(p)),
              body |-> "grant_type=password&username=" \o p.username
                          \o "&password=" \o p.password]
    IN  /\ req' = r
        /\ sent' = <<r>>
        /\ pc' = "fetch"
        /\ dret' = NoReturn
        /\ ret' = NoReturn
        /\ waits' = <<>>

\* Request(pa, url, method, body, headers) is called.
Request(a) ==
    /\ pc = "idle"
    /\ calls < MaxCalls
    /\ calls' = calls + 1
    /\ prev' = IF calls = 0 THEN NoSummary ELSE Summary
    /\ args' = a
    /\ tok0' = pa.bearerToken
    /\ got' = NotCalled
    /\ gret' = NoReturn
    /\ i' = 0
    /\ hist' = <<>>
    /\ pa' = pa
    /\ IF NeedToken(pa)
       THEN /\ nFetch' = 1
            /\ nTarget' = 0
            /\ caller' = [headers |-> a.headers, body |-> a.body]
            /\ BeginFetch(pa)
       ELSE /\ nFetch' = 0
            /\ nTarget' = 1
            /\ BeginTarget(pa, args', <<>>)
    /\ UNCHANGED cvars

\* The attempt in flight ends with outcome o: client.Do either waits and sends
\* the request again, or returns, and doRequest returns with it.  A doRequest
\* for the target returns into Request, which returns the same pair.
DoAttempt(o) ==
    /\ pc \in {"fetch", "target"}
    /\ hist' = Append(hist, o)
    /\ IF RetryAgain(o, i)
       THEN /\ i' = i + 1
            /\ waits' = Append(waits, Backoff(RetryWaitMin, RetryWaitMax, i, o))
            /\ UNCHANGED <<pc, dret, ret>>
       ELSE /\ i' = i
            /\ waits' = waits
            /\ dret' = DoRequestResult(DoReturn(o, i + 1))
            /\ pc' = IF pc = "fetch" THEN "fetched" ELSE "idle"
            /\ ret' = IF pc = "fetch" THEN ret ELSE dret'
    /\ UNCHANGED <<pa, args, req, gret, got, sent, tok0, nFetch, nTarget, calls,
                   prev, caller>>
    /\ UNCHANGED cvars

\* getToken from the return of its doRequest, and Request from the return of
\* getToken: cache the token and go on to the target, or give up.
GetTokenReturn ==
    /\ pc = "fetched"
    /\ gret' = GetTokenResult(dret)
    /\ IF FetchSucceeded(gret')
       THEN /\ pa' = CacheToken(pa, gret')
            /\ nTarget' = 1
            /\ i' = 0
            /\ hist' = <<>>
            /\ BeginTarget(pa', args, sent)
       ELSE /\ pa' = pa
            /\ ret' = [res |-> "Couldn't authenticate", err |-> gret'.err]
            /\ pc' = "idle"
            /\ UNCHANGED <<nTarget, i, hist, req, sent, dret, waits, caller>>
    /\ UNCHANGED <<args, got, tok0, nFetch, calls, prev>>
    /\ UNCHANGED cvars

\* GetToken(pa) is called.
GetTokenAndForget ==
    /\ pc = "idle"
    /\ got' = pa.bearerToken
    /\ pa' = [pa EXCEPT !.bearerToken = ""]
    /\ UNCHANGED <<pc, args, req, i, hist, dret, gret, ret, sent, tok0,
                   nFetch, nTarget, calls, prev, waits, caller>>
    /\ UNCHANGED cvars

GetToken ==
    /\ pc = "idle"
    /\ got' = pa.bearerToken
    /\ UNCHANGED <<pa, pc, args, req, i, hist, dret, gret, ret, sent, tok0,
                   nFetch, nTarget, calls, prev, waits, caller>>
    /\ UNCHANGED cvars

Next ==
    \/ \E a \in CallArgs : Request(a)
    \/ \E o \in Outcomes : DoAttempt(o)
    \/ GetTokenReturn
    \/ GetToken

Spec == Init /\ [][Next]_vars

\* ------------------------------------------- the same client, other inputs

\* A second environment for what Request does with its headers: more header
\* maps from the caller, fewer answers from the server.
HeaderMaps ==
    { NoHeaders,
      [k \in {"Content-Type"} |-> "text/plain"],
      [k \in {"content-type"} |-> "text/plain"],
      [k \in {"authorization"} |-> "Bearer evil"],
      [k \in {"Authorization"} |-> "Basic evil"],
      [k \in {"X-Trace"} |-> "1"],
      [k \in {"X-Trace", "Content-Type"} |->
          IF k = "X-Trace" THEN "1" ELSE "text/plain"] }

HeaderArgs ==
    {[headers |-> h, wellFormed |-> TRUE, body |-> b] :
        h \in HeaderMaps, b \in {"", "{\"name\":\"x\"}"}}
    \cup {[headers |-> NoHeaders, wellFormed |-> FALSE, body |-> ""]}

FewOutcomes ==
    { NetErr, Resp(500, "", TRUE), Resp(401, "", TRUE), Resp(404, "", TRUE),
      Resp(200, "{}", TRUE), Resp(200, "{\"access_token\":\"t1\"}", TRUE) }

NextHeaders ==
    \/ \E a \in HeaderArgs : Request(a)
    \/ \E o \in FewOutcomes : DoAttempt(o)
    \/ GetTokenReturn
    \/ GetToken

SpecHeaders == Init /\ [][NextHeaders]_vars

\* A server that rejects every bearer token: each attempt at the target URL is
\* answered 401, while the token endpoint answers as it likes.
RejectingOutcomes ==
    IF pc = "target" THEN {Resp(401, "", TRUE)} ELSE FewOutcomes

NextRejecting ==
    \/ \E a \in CallArgs : Request(a)
    \/ \E o \in RejectingOutcomes : DoAttempt(o)
    \/ GetTokenReturn
    \/ GetToken

SpecRejecting == Init /\ [][NextRejecting]_vars

\* A server that sends Retry-After headers with its 429 and 500 answers, and
\* a client that New was given a token.
BackoffOutcomes ==
    { NetErr,
      Resp(429, "", TRUE),
      RespAfter(429, "0"),
      RespAfter(429, "120"),
      RespAfter(500, "120"),
      Resp(404, "", TRUE),
      Resp(200, "{}", TRUE) }

InitCached == Init /\ pa.bearerToken # ""

NextBackoff ==
    \/ Request(NoArgs)
    \/ \E o \in BackoffOutcomes : DoAttempt(o)
    \/ GetToken

SpecBackoff == InitCached /\ [][NextBackoff]_vars

\* The state of the calls made one after another.
svars ==
    <<pc, args, req, i, hist, dret, gret, ret, got, sent, tok0, nFetch,
      nTarget, calls, prev, waits, caller>>

\* Concurrent use.  Several threads call Request on one client that holds no
\* token; nothing orders their accesses to pa.bearerToken.  A read returns the
\* value of the last assignment the thread has made or seen, or of a later
\* one, and may overlap an assignment of another thread it has not seen yet.
TokenAt(n) == IF n = 0 THEN "" ELSE writes[n].tok

Unseen(t) == {n \in 1..Len(writes) : n > th[t].at}

Reads(t) ==
    {[at |-> n, val |-> TokenAt(n)] : n \in {th[t].at} \cup Unseen(t)}
    \cup {[at |-> th[t].at, val |-> Torn] :
            n \in {m \in Unseen(t) : writes[m].t # t}}

\* What the token endpoint and the target answer to the threads; each
\* doRequest of a thread is shown as its last attempt.
ConcTokenOutcomes ==
    { Resp(200, "{\"access_token\":\"t1\"}", TRUE),
      Resp(200, "{\"access_token\":\"t2\"}", TRUE),
      Resp(401, "", TRUE) }

ConcTargetOutcomes == {Resp(200, "{}", TRUE), Resp(401, "", TRUE)}

\* Thread t calls Request and tests pa.bearerToken == "".
ConcRequest(t) ==
    /\ ~crashed
    /\ th[t].pc = "idle"
    /\ \E r \in Reads(t) :
          th' = [th EXCEPT ![t].at = r.at,
                           ![t].saw = r.val,
                           ![t].pc = IF r.val = "" THEN "fetch" ELSE "merge"]
    /\ UNCHANGED <<pa, writes, crashed>>
    /\ UNCHANGED svars

\* getToken returns to thread t, which assigns the token on success.
ConcGetTokenReturn(t, o) ==
    /\ ~crashed
    /\ th[t].pc = "fetch"
    /\ LET g == GetTokenResult(DoRequestResult(DoReturn(o, 1)))
       IN  IF FetchSucceeded(g)
           THEN /\ pa' = CacheToken(pa, g)
                /\ writes' = Append(writes, [t |-> t, tok |-> pa'.bearerToken])
                /\ th' = [th EXCEPT ![t].fetched = g.res,
                                    ![t].at = Len(writes'),
                                    ![t].pc = "merge"]
           ELSE /\ th' = [th EXCEPT ![t].fetched = "",
                                    ![t].res = "Couldn't authenticate",
                                    ![t].pc = "done"]
                /\ UNCHANGED <<pa, writes>>
    /\ UNCHANGED crashed
    /\ UNCHANGED svars

\* Thread t reads pa.bearerToken for the Bearer header and calls doRequest;
\* concatenating a torn string faults.
ConcBeginTarget(t) ==
    /\ ~crashed
    /\ th[t].pc = "merge"
    /\ \E r \in Reads(t) :
          IF r.val = Torn
          THEN /\ crashed' = TRUE
               /\ th' = th
          ELSE /\ crashed' = FALSE
               /\ th' = [th EXCEPT ![t].at = r.at,
                                   ![t].auth = AuthorizationValue(BearerAuth(
                                       [pa EXCEPT !.bearerToken = r.val])),
                                   ![t].pc = "target"]
    /\ UNCHANGED <<pa, writes>>
    /\ UNCHANGED svars

\* doRequest for the target returns to thread t, and Request returns.
ConcTargetReturn(t, o) ==
    /\ ~crashed
    /\ th[t].pc = "target"
    /\ th' = [th EXCEPT ![t].res = DoRequestResult(DoReturn(o, 1)).res,
                        ![t].pc = "done"]
    /\ UNCHANGED <<pa, writes, crashed>>
    /\ UNCHANGED svars

InitEmpty == Init /\ pa.bearerToken = ""

NextConc ==
    \/ \E t \in Threads : ConcRequest(t)
    \/ \E t \in Threads : \E o \in ConcTokenOutcomes : ConcGetTokenReturn(t, o)
    \/ \E t \in Threads : ConcBeginTarget(t)
    \/ \E t \in Threads : \E o \in ConcTargetOutcomes : ConcTargetReturn(t, o)

SpecConc == InitEmpty /\ [][NextConc]_vars

\* An adversarial server and network, every attempt of which ends: client.Do
\* blocks in the attempt and in the backoff sleep, both of which come to an
\* end, and getToken and Request run on from each return.
NextAnswered ==
    \/ \E a \in CallArgs : Request(a)
    \/ \E o \in FewOutcomes : DoAttempt(o)
    \/ GetTokenReturn
    \/ GetToken

SpecAnswered ==
    /\ Init
    /\ [][NextAnswered]_vars
    /\ WF_vars(\E o \in FewOutcomes : DoAttempt(o))
    /\ WF_vars(GetTokenReturn)

\* ------------------------------------------------------------------ claims

Last(q) == q[Len(q)]

InDoRequest == pc \in {"fetch", "target"}

\* The attempts the current doRequest call has sent: the answered ones and
\* the one in flight.
AttemptsSent == IF InDoRequest THEN Len(hist) + 1 ELSE Len(hist)

\* A doRequest call has returned and its attempts are in hist.
DoRequestEnded == pc \in {"idle", "fetched"} /\ hist # <<>>

TokenRequests == {n \in 1..Len(sent) : sent[n].dest = "token"}

TargetRequests == {n \in 1..Len(sent) : sent[n].dest = "target"}

\* C1: a Request call that starts with a non-empty cached token (passed to New
\* or cached by an earlier call) makes no getToken call and hands no token
\* request to the executor, during the call and after it, whatever it returns.
C1_CachedTokenNoFetch ==
    (calls > 0 /\ tok0 # "") =>
        /\ nFetch = 0
        /\ TokenRequests = {}
        /\ pc \notin {"fetch", "fetched"}
        /\ gret = NoReturn

\* C1 witness: the second call, run on the token the first call fetched, has
\* ended in a 401 without any fetch.
C1_Witness ==
    /\ calls = 2 /\ pc = "idle"
    /\ prev.tok0 = "" /\ prev.nFetch = 1 /\ prev.tokEnd = "t1"
    /\ tok0 = "t1" /\ nFetch = 0
    /\ ret = [res |-> "Unauthorized", err |-> "401"]

\* C2: on a client created with an empty token, the first Request call makes
\* exactly one getToken call, whose POST to the token endpoint is the only
\* request out until getToken has returned; when it returned a token, the call
\* then hands exactly one request for the target to the executor, carrying
\* Authorization: Bearer <that token>.  The second call on the client makes no
\* getToken call and sends one target request with the same header.
C2_FetchOnceThenBearer ==
    /\ (calls = 1 /\ tok0 = "") =>
          /\ nFetch = 1
          /\ Len(sent) >= 1 /\ sent[1].dest = "token" /\ sent[1].method = "POST"
          /\ TokenRequests = {1}
          /\ pc \in {"fetch", "fetched"} => TargetRequests = {}
          /\ (gret # NoReturn /\ gret.err = Nil /\ args.wellFormed) =>
                /\ TargetRequests = {2}
                /\ nTarget = 1
                /\ sent[2].header["Authorization"] = "Bearer " \o gret.res
                /\ gret.res \in {"t1", "t2"}
    /\ (calls = 2 /\ prev.tok0 = "" /\ prev.tokEnd # "") =>
          /\ nFetch = 0
          /\ TokenRequests = {}
          /\ nTarget = 1
          /\ args.wellFormed =>
                /\ TargetRequests = {1} /\ Len(sent) = 1
                /\ sent[1].header["Authorization"] = "Bearer " \o prev.tokEnd
                /\ prev.targetAuth \in {"-", sent[1].header["Authorization"]}

\* C2 witness: both calls have succeeded, the second with the header of the
\* first.
C2_Witness ==
    /\ calls = 2 /\ pc = "idle"
    /\ prev.tok0 = "" /\ prev.nFetch = 1 /\ prev.targetAuth = "Bearer t2"
    /\ nFetch = 0 /\ TargetAuth = "Bearer t2"
    /\ ret = [res |-> "{}", err |-> Nil]

\* C3 (as claimed): one doRequest call sends at most 5 attempts, and when
\* every attempt is answered 500 it fails after exactly 5.
C3_AtMostFiveAttempts ==
    /\ AttemptsSent <= 5
    /\ (DoRequestEnded /\ \A n \in 1..Len(hist) : hist[n] = Resp(500, "", TRUE)) =>
          (Len(hist) = 5 /\ dret.err # Nil)

\* C3 (amended): one doRequest call sends at most 6 attempts, the first try
\* and 5 retries; when every attempt is answered 500 it returns "Error running
\* request" and the give-up error after exactly 6 attempts.
C3_AtMostSixAttempts ==
    /\ AttemptsSent <= 6
    /\ i <= 5
    /\ (DoRequestEnded /\ \A n \in 1..Len(hist) : hist[n] = Resp(500, "", TRUE)) =>
          /\ Len(hist) = 6
          /\ dret = [res |-> "Error running request",
                     err |-> "giving up after 6 attempt(s)"]

\* C3 witness: six attempts, all answered 500, and the call has failed.
C3_Witness ==
    /\ pc = "idle" /\ Len(hist) = 6
    /\ \A n \in 1..6 : hist[n] = Resp(500, "", TRUE)
    /\ ret.res = "Error running request"

\* The outcomes the claims call retryable: a network error, HTTP 429, or a
\* status of 500 or more other than 501.
Retryable(o) ==
    \/ o.kind = "neterr"
    \/ o.kind = "resp" /\ o.status = 429
    \/ o.kind = "resp" /\ o.status >= 500 /\ o.status # 501

Is2xx(o) == o.kind = "resp" /\ o.status >= 200 /\ o.status < 300

\* The step is a retry: client.Do stays in its loop and sends again.
Retried == i' = i + 1 /\ pc' = pc

\* C4: when an attempt is answered, the executor retries if and only if the
\* outcome is retryable (and one of its 5 retries is left); after a 401, a
\* 501, any other 4xx and any 2xx or 3xx response it never retries, and the
\* call ends at that attempt.
C4_RetryIffRetryable ==
    [][(InDoRequest /\ hist' # hist) =>
          LET o == Last(hist')
          IN  /\ Retried <=> (Retryable(o) /\ i < 5)
              /\ ~Retryable(o) => (pc' \in {"idle", "fetched"} /\ i' = i)
              /\ Len(hist') = Len(hist) + 1]_vars

\* C4 witness: a network error, a 429 and a 500 were each retried, and the
\* 501 that followed ended the call.
C4_Witness ==
    /\ pc = "idle" /\ i = 3
    /\ hist = <<NetErr, Resp(429, "", TRUE), Resp(500, "", TRUE),
                Resp(501, "", TRUE)>>

\* C5: when a doRequest call was answered by k retryable failures and then a
\* 2xx response, it made exactly k retries (k + 1 attempts) and, the body of
\* that response having arrived, returned the body as it is with a nil error.
C5_RetriesThenBody ==
    (/\ DoRequestEnded
     /\ Is2xx(Last(hist))
     /\ \A n \in 1..(Len(hist) - 1) : Retryable(hist[n])) =>
        /\ i = Len(hist) - 1
        /\ i <= 5
        /\ Last(hist).readOk => dret = [res |-> Last(hist).body, err |-> Nil]

\* C5 witness: [500, 500, 200] gave two retries and the body of the 200.
C5_Witness ==
    /\ pc = "idle" /\ i = 2
    /\ hist = <<Resp(500, "", TRUE), Resp(500, "", TRUE),
                Resp(200, "<html>", TRUE)>>
    /\ ret = [res |-> "<html>", err |-> Nil]

\* C6: a 401 is never retried: it is the last attempt of its call, whatever
\* came before it, and the call returns "Unauthorized" and the error "401".
C6_401EndsCall ==
    \A n \in 1..Len(hist) :
        (hist[n].kind = "resp" /\ hist[n].status = 401) =>
            /\ n = Len(hist)
            /\ pc \in {"idle", "fetched"}
            /\ i = n - 1
            /\ dret = [res |-> "Unauthorized", err |-> "401"]

\* C6 witness: a 401 after two retried failures ended the call.
C6_Witness ==
    /\ pc = "idle" /\ i = 2
    /\ hist = <<Resp(500, "", TRUE), Resp(429, "", TRUE), Resp(401, "", TRUE)>>
    /\ ret = [res |-> "Unauthorized", err |-> "401"]

\* What the claims expect doRequest to return for a status that is neither
\* 2xx nor 401: the decimal code and the status text.
ExpectedForStatus(s) ==
    CASE s = 304 -> [res |-> "304", err |-> "Not Modified"]
      [] s = 404 -> [res |-> "404", err |-> "Not Found"]
      [] s = 429 -> [res |-> "429", err |-> "Too Many Requests"]
      [] s = 500 -> [res |-> "500", err |-> "Internal Server Error"]
      [] s = 501 -> [res |-> "501", err |-> "Not Implemented"]

EndedOnOtherStatus ==
    /\ DoRequestEnded
    /\ Last(hist).kind = "resp"
    /\ ~Is2xx(Last(hist))
    /\ Last(hist).status # 401

\* C7 (as claimed): a call that ends on a response whose status is not 2xx and
\* not 401, the last 429 or 5xx of a call out of retries included, returns the
\* status code as the result and the status text as the error.
C7_StatusCodeAndText ==
    EndedOnOtherStatus => dret = ExpectedForStatus(Last(hist).status)

\* C7 (amended): a call that ends on a non-retryable status that is not 2xx and
\* not 401 returns the status code as the result and the status text as the
\* error; a call that ends on a 429 or 5xx because its retries are used up
\* returns "Error running request" and the give-up error of client.Do.
C7_StatusCodeUnlessGivenUp ==
    EndedOnOtherStatus =>
        IF Retryable(Last(hist))
        THEN /\ Len(hist) = 6
             /\ dret = [res |-> "Error running request",
                        err |-> "giving up after 6 attempt(s)"]
        ELSE dret = ExpectedForStatus(Last(hist).status)

\* C7 witness: a 404 after a retried 500 ended the call with "404".
C7_Witness ==
    /\ pc = "idle"
    /\ hist = <<Resp(500, "", TRUE), Resp(404, "", TRUE)>>
    /\ ret = [res |-> "404", err |-> "Not Found"]

\* The 2xx bodies of the model that are not valid JSON, or valid JSON without
\* an access_token, or with an empty one.
NotJSONBodies == {"", "<html>"}

NoTokenBodies == {"{}", "{\"access_token\":\"\"}"}

\* The running call has started with no token and its getToken has returned.
FetchReturned == calls > 0 /\ tok0 = "" /\ gret # NoReturn

\* C8: getToken succeeds only with a non-empty token.  When the token endpoint
\* answered 2xx with a body that is not JSON, or JSON without a non-empty
\* access_token, getToken returned an error and Request failed with "Couldn't
\* authenticate"; a getToken that returned no error returned a non-empty
\* token, and the token cached by a call that fetched is that token.
C8_NoEmptyTokenSuccess ==
    /\ (gret # NoReturn /\ gret.err = Nil) => gret.res # ""
    /\ (FetchReturned /\ gret.err = Nil) =>
          (pa.bearerToken = gret.res /\ pa.bearerToken # "")
    /\ (FetchReturned /\ sent = <<Last(sent)>> /\ Last(sent).dest = "token"
        /\ DoRequestEnded /\ Is2xx(Last(hist)) /\ Last(hist).readOk
        /\ Last(hist).body \in NotJSONBodies \cup NoTokenBodies) =>
          /\ gret.err # Nil
          /\ Last(hist).body \in NoTokenBodies =>
                gret = [res |-> "", err |-> "access_token not found in response"]
          /\ Last(hist).body \in NotJSONBodies =>
                gret.res = "Couldn't parse authentication attempt response"
          /\ pc = "idle"
          /\ ret = [res |-> "Couldn't authenticate", err |-> gret.err]
          /\ nTarget = 0
          /\ pa.bearerToken = ""
    /\ (calls > 0 /\ tok0 = "" /\ nTarget > 0) => pa.bearerToken # ""

\* C8 witness: the token endpoint answered 200 with an empty access_token and
\* the call failed with the token still empty.
C8_Witness ==
    /\ pc = "idle" /\ calls = 1 /\ tok0 = ""
    /\ hist = <<Resp(200, "{\"access_token\":\"\"}", TRUE)>>
    /\ gret = [res |-> "", err |-> "access_token not found in response"]
    /\ ret.res = "Couldn't authenticate"
    /\ pa.bearerToken = ""

\* getToken has failed in the running call.
FetchFailed == FetchReturned /\ gret.err # Nil

\* C9: when Request is called with no cached token and getToken fails
\* (transport failure, 401, another status, unusable body), Request returns in
\* that step with "Couldn't authenticate" and getToken's error, which is
\* doRequest's error when doRequest failed; it sends nothing to the target and
\* leaves the token empty, and the next Request call calls getToken again.
C9_FetchFailureReturns ==
    /\ FetchFailed =>
          /\ pc = "idle"
          /\ ret = [res |-> "Couldn't authenticate", err |-> gret.err]
          /\ gret.err \notin {Nil, "-", ""}
          /\ dret.err # Nil => gret.err = dret.err
          /\ nTarget = 0
          /\ TargetRequests = {}
          /\ pa.bearerToken = ""
    /\ (calls >= 2 /\ prev.tok0 = "" /\ prev.nFetch = 1 /\ prev.tokEnd = "") =>
          (tok0 = "" /\ nFetch = 1 /\ sent[1].dest = "token")

\* C9 witness: the first call failed on a 404 from the token endpoint, and the
\* second call is fetching again.
C9_Witness ==
    /\ calls = 2 /\ pc = "fetch"
    /\ prev.tok0 = "" /\ prev.nFetch = 1 /\ prev.nTarget = 0 /\ prev.tokEnd = ""
    /\ nFetch = 1 /\ pa.bearerToken = ""

\* C10: the token field changes only from empty to the non-empty token a
\* successful getToken has just returned; a non-empty token is never changed
\* or emptied, by Request (whatever the answers) or by GetToken.
C10_TokenOnlyFromEmpty ==
    [][pa'.bearerToken # pa.bearerToken =>
          /\ pa.bearerToken = ""
          /\ pa'.bearerToken # ""
          /\ pc = "fetched"
          /\ gret'.err = Nil
          /\ pa'.bearerToken = gret'.res
          /\ pa'.bearerToken = Unmarshal(dret.res).AccessToken]_vars

\* C10 witness: the token the first call fetched is still cached, and GetToken
\* returns it, after the second call ended in a 401.
C10_Witness ==
    /\ calls = 2 /\ pc = "idle"
    /\ prev.tok0 = "" /\ prev.tokEnd = "t1"
    /\ pa.bearerToken = "t1"
    /\ ret = [res |-> "Unauthorized", err |-> "401"]
    /\ got = "t1"

\* The value the caller gave for a header, whatever the case of its key.
CallerKeys(m, c) == {k \in DOMAIN m : Canon(k) = c}

\* The running call has built its target request.
TargetBuilt == calls > 0 /\ TargetRequests # {}

TargetHeader == sent[CHOOSE n \in TargetRequests : TRUE].header

\* C11 (as claimed): the target request carries the caller's Content-Type
\* when the caller's map has one and application/json otherwise, and every
\* other header of the caller (Authorization apart, which the executor sets)
\* with the caller's value.
C11_CallerHeadersWin ==
    TargetBuilt =>
        /\ "Content-Type" \in DOMAIN TargetHeader
        /\ IF CallerKeys(args.headers, "Content-Type") = {}
           THEN TargetHeader["Content-Type"] = "application/json"
           ELSE \E k \in CallerKeys(args.headers, "Content-Type") :
                    TargetHeader["Content-Type"] = args.headers[k]
        /\ \A k \in DOMAIN args.headers :
              Canon(k) \notin {"Content-Type", "Authorization"} =>
                  /\ Canon(k) \in DOMAIN TargetHeader
                  /\ TargetHeader[Canon(k)] = args.headers[k]

\* C12: GetToken returns exactly the token the client holds and changes
\* nothing: the value New was given while no Request call has been made, the
\* token a fetch returned once a call has fetched one (even when that call's
\* target request failed), and "" on a client built without a token whose
\* fetch failed; neither the client nor anything else differs after the call.
C12_GetTokenReturnsCached ==
    /\ [](got # NotCalled =>
            /\ pc = "idle"
            /\ got = pa.bearerToken
            /\ calls = 0 => got = tok0
            /\ (calls > 0 /\ tok0 # "") => got = tok0
            /\ (calls > 0 /\ tok0 = "" /\ ~FetchFailed) => got = gret.res
            /\ (calls > 0 /\ tok0 = "" /\ FetchFailed) => got = "")
    /\ [][(pc = "idle" /\ pc' = "idle" /\ calls' = calls) =>
            /\ got' = pa.bearerToken
            /\ UNCHANGED <<pa, pc, args, req, i, hist, dret, gret, ret, sent,
                           tok0, nFetch, nTarget, calls, prev, waits, caller>>
         ]_vars

\* GetToken hands out a fetched token after a call whose target request
\* failed.
C12_Witness ==
    /\ calls = 1
    /\ tok0 = ""
    /\ gret # NoReturn
    /\ gret.err = Nil
    /\ ret.err # Nil
    /\ got = gret.res
    /\ got # ""

\* C13: against a server that answers every target request 401, a Request
\* call that starts with a cached token (given to New, or fetched by an
\* earlier call) calls no getToken, sends its target request once with that
\* token and no retry, returns "Unauthorized" with the error "401" when
\* method and URL are well formed, and leaves the same token cached; the call
\* after it starts with that same token and sends the same header again.
C13_StaleTokenStaysUnauthorized ==
    (calls > 0 /\ tok0 # "") =>
        /\ nFetch = 0
        /\ gret = NoReturn
        /\ TokenRequests = {}
        /\ i = 0
        /\ waits = <<>>
        /\ pa.bearerToken = tok0
        /\ (calls > 1 /\ prev.tokEnd # "") =>
              /\ tok0 = prev.tokEnd
              /\ prev.targetAuth \in {"-", "Bearer " \o tok0}
        /\ (pc = "idle" /\ args.wellFormed) =>
              /\ ret = [res |-> "Unauthorized", err |-> "401"]
              /\ Len(hist) = 1
              /\ hist[1].status = StatusUnauthorized
              /\ Cardinality(TargetRequests) = 1
              /\ TargetAuth = "Bearer " \o tok0

\* A second call in a row has failed with Unauthorized on the same cached
\* token.
C13_Witness ==
    /\ calls = 2
    /\ pc = "idle"
    /\ prev.tok0 # ""
    /\ prev.nTarget = 1
    /\ prev.targetAuth = TargetAuth
    /\ tok0 = prev.tok0
    /\ pa.bearerToken = tok0
    /\ ret = [res |-> "Unauthorized", err |-> "401"]
    /\ nFetch = 0

\* C14: every Request call returns.  Whatever the server and the network
\* answer, each doRequest call (the one of getToken, the one for the target)
\* sends at most RetryMax + 1 attempts, a call fetches a token at most once
\* and sends at most one target request, getToken and the target phase never
\* lead back into a fetch or a new call, and a call that has started reaches
\* its return, with a (string, error) pair.
C14_RequestTerminates ==
    /\ [](/\ AttemptsSent <= RetryMax + 1
          /\ nFetch <= 1
          /\ nTarget <= 1
          /\ Cardinality(TokenRequests) <= 1
          /\ Cardinality(TargetRequests) <= 1
          /\ (pc = "idle" /\ calls > 0) => ret # NoReturn)
    /\ [][(pc \in {"fetched", "target"}) =>
            /\ pc' # "fetch"
            /\ calls' = calls
            /\ nFetch' = nFetch
         ]_vars
    /\ (pc # "idle") ~> (pc = "idle")

\* A call has returned after a token fetch and a target phase that used
\* every retry.
C14_Witness ==
    /\ pc = "idle"
    /\ calls > 0
    /\ nFetch = 1
    /\ nTarget = 1
    /\ Len(hist) = RetryMax + 1
    /\ ret.res = "Error running request"

\* The responses whose Retry-After header sets the wait.
HasRetryAfter(o) ==
    /\ o.kind = "resp"
    /\ o.status \in {429, 503}
    /\ o.retryAfter \in {"0", "120"}

\* C15 (as claimed): the wait before every retry is 2^(n-1) seconds for the
\* n-th retry, cut at 30 seconds, and lies between 1 and 30 seconds, whichever
\* retryable outcome (network error, 429, 5xx other than 501) is retried.
C15_WaitBetween1And30 ==
    /\ Len(waits) = i
    /\ \A n \in 1..Len(waits) :
          /\ Retryable(hist[n])
          /\ waits[n] >= 1
          /\ waits[n] <= 30
          /\ waits[n] = IF 2^(n - 1) > 30 THEN 30 ELSE 2^(n - 1)

\* C15 (amended): the wait before the n-th retry is the number of seconds of
\* the Retry-After header when the retried response is a 429 or 503 that
\* carries one, whatever that number; for every other retried outcome it is
\* 2^(n-1) seconds, that is 1, 2, 4, 8 and 16 seconds for the five retries,
\* at least 1 and at most 30 seconds.
C15_WaitDoublesUnlessRetryAfter ==
    /\ Len(waits) = i
    /\ \A n \in 1..Len(waits) :
          /\ Retryable(hist[n])
          /\ IF HasRetryAfter(hist[n])
             THEN waits[n] = (IF hist[n].retryAfter = "0" THEN 0 ELSE 120)
             ELSE /\ waits[n] = <<1, 2, 4, 8, 16>>[n]
                  /\ waits[n] >= 1
                  /\ waits[n] <= 30

\* All five retries of one call were made, the second after a 429 answer
\* with Retry-After: 120.
C15_Witness ==
    /\ Len(waits) = RetryMax
    /\ waits = <<1, 120, 4, 8, 16>>
    /\ hist[2] = RespAfter(429, "120")
    /\ hist[5] = NetErr

\* The threads whose getToken has returned a token.
Fetchers == {t \in Threads : th[t].fetched \notin {"-", ""}}

\* C16: nothing de-duplicates or orders concurrent Request calls.  Every
\* thread that read an empty token runs its own getToken, whatever the other
\* threads are doing; a thread whose getToken succeeds assigns its token to
\* pa.bearerToken unconditionally, also over a token another thread has
\* cached, so the field holds the token of the latest assignment.
C16_ConcurrentFetchesOverwrite ==
    /\ [](/\ pa.bearerToken = TokenAt(Len(writes))
          /\ \A t \in Threads :
                /\ (th[t].saw = "") =>
                      \/ th[t].pc = "fetch"
                      \/ th[t].fetched # "-"
                /\ t \in Fetchers =>
                      \E n \in 1..Len(writes) :
                          writes[n] = [t |-> t, tok |-> th[t].fetched])
    /\ [][\A t \in Threads :
            (th[t].pc = "fetch" /\ th'[t].pc = "merge") =>
                /\ pa'.bearerToken = th'[t].fetched
                /\ Len(writes') = Len(writes) + 1
         ]_vars

\* Two threads both read the empty token and both fetched; the second
\* assignment replaced the token the first had cached, and one thread has
\* sent a token that is no longer the cached one.
C16_Witness ==
    /\ \A t \in {1, 2} : th[t].saw = "" /\ t \in Fetchers
    /\ Len(writes) >= 2
    /\ writes[1].tok # writes[2].tok
    /\ pa.bearerToken = writes[2].tok
    /\ \E t \in {1, 2} :
          /\ th[t].pc = "done"
          /\ th[t].auth = "Bearer " \o writes[1].tok

\* C17: every request handed to the executor for the target URL, and so every
\* attempt sent for it, carries the one Authorization header "Bearer "
\* followed by the token the client holds, which is not empty; an
\* Authorization or authorization header of the caller is not in it.  The
\* token request carries "Basic " and the encoded client id and secret.
C17_BearerOnTargetBasicOnToken ==
    \A n \in 1..Len(sent) :
        /\ "Authorization" \in DOMAIN sent[n].header
        /\ \A k \in DOMAIN sent[n].header :
              Canon(k) = "Authorization" => k = "Authorization"
        /\ sent[n].dest = "target" =>
              /\ pa.bearerToken # ""
              /\ sent[n].header["Authorization"] = "Bearer " \o pa.bearerToken
        /\ sent[n].dest = "token" =>
              sent[n].header["Authorization"] =
                  "Basic " \o Base64(pa.clientId \o ":" \o pa.clientSecret)

\* A target request was built from caller headers that hold an Authorization
\* entry, with a token fetched in the same call.
C17_Witness ==
    /\ TargetBuilt
    /\ tok0 = ""
    /\ CallerKeys(args.headers, "Authorization") # {}
    /\ TargetHeader["Authorization"] = "Bearer " \o pa.bearerToken
    /\ hist # <<>>

\* C18: Request changes nothing of the caller's but the token.  During and
\* after every call, whatever it returns, the caller's headers map and body
\* hold what was passed in (the default Content-Type goes into the merged map
\* only), and no step changes the client's username, password, clientId or
\* clientSecret.
C18_CallerDataUntouched ==
    /\ [](calls > 0 =>
            /\ caller.headers = args.headers
            /\ caller.body = args.body
            /\ TargetBuilt => Last(sent).body = args.body)
    /\ [][/\ pa'.username = pa.username
          /\ pa'.password = pa.password
          /\ pa'.clientId = pa.clientId
          /\ pa'.clientSecret = pa.clientSecret
         ]_vars

\* A call with a body and a headers map without Content-Type has fetched a
\* token and returned a response body; the request carried the default
\* Content-Type and the caller's map still has none.
C18_Witness ==
    /\ pc = "idle"
    /\ TargetBuilt
    /\ tok0 = ""
    /\ pa.bearerToken # ""
    /\ ret.err = Nil
    /\ args.body # ""
    /\ DOMAIN args.headers = {"X-Trace"}
    /\ TargetHeader["Content-Type"] = "application/json"
    /\ "Content-Type" \notin DOMAIN caller.headers

====
